---- MODULE Spec2Model ----
(***************************************************************************)
(* A model of the two utilities of the repository:                         *)
(*   benchmark_parser.py  parse_benchmark_log, format_dataframe, main      *)
(*   socket_wait.py       is_port_open, wait_while_port_open               *)
(* Log text is modelled at the level the regular expressions see it: a log *)
(* is the list of chunks re.split produces, a chunk says whether the run   *)
(* header and the results-block marker occur in it and, for every label,   *)
(* the characters written after it.  Numbers are converted character by    *)
(* character, as int() and float() do.                                     *)
(***************************************************************************)
EXTENDS Integers, Sequences, FiniteSets, TLC

\* ------------------------------------------------------------------ bounds
\* The largest number of [RUNNING] segments of a log.
MaxSegments == 2
\* The poll counters of the port waiter saturate here.
MaxPolls == 6

\* ------------------------------------------------------------ characters
DigitChars == {"0", "1", "2", "3", "4", "5", "6", "7", "8", "9"}

DigitVal(c) ==
    CASE c = "0" -> 0 [] c = "1" -> 1 [] c = "2" -> 2 [] c = "3" -> 3
      [] c = "4" -> 4 [] c = "5" -> 5 [] c = "6" -> 6 [] c = "7" -> 7
      [] c = "8" -> 8 [] c = "9" -> 9

\* The character classes of the value groups: (\d+), ([\d,]+), ([\d\.]+),
\* ([\d,\.]+).
ClassChars(cls) ==
    CASE cls = "d"   -> DigitChars
      [] cls = "dc"  -> DigitChars \cup {","}
      [] cls = "dp"  -> DigitChars \cup {"."}
      [] cls = "dcp" -> DigitChars \cup {",", "."}

RECURSIVE PrefixLen(_, _, _)
PrefixLen(text, chars, i) ==
    IF i > Len(text) \/ text[i] \notin chars THEN i - 1
    ELSE PrefixLen(text, chars, i + 1)

\* The text a greedy group of class cls captures at the start of text
\* (<<>> when not even one character is in the class: the pattern fails).
Capture(cls, text) == SubSeq(text, 1, PrefixLen(text, ClassChars(cls), 1))

\* str.replace(',', '')
StripCommas(text) == SelectSeq(text, LAMBDA c : c # ",")

RECURSIVE DigitsToNat(_)
DigitsToNat(ds) ==
    IF ds = <<>> THEN 0
    ELSE 10 * DigitsToNat(SubSeq(ds, 1, Len(ds) - 1)) + DigitVal(ds[Len(ds)])

CountOf(text, ch) == Len(SelectSeq(text, LAMBDA c : c = ch))

\* --------------------------------------------------------------- values
\* A Python value held in a record or a table cell.
\*   none     None / NaN
\*   int      the integer n
\*   float    the decimal n / 10^d, with no trailing zero in the fraction
\*   str      the text s
\*   topo     the text f"{n}p{d}d"
\*   fixed2   the text of f"{x:.2f}": n hundredths
\*   grouped  the text of f"{int(x):,}": n, digits grouped by commas
Cell(k, n, d, s) == [k |-> k, n |-> n, d |-> d, s |-> s]
None == Cell("none", 0, 0, "")
IntCell(n) == Cell("int", n, 0, "")
StrCell(s) == Cell("str", 0, 0, s)

RECURSIVE Normalise(_, _)
Normalise(n, d) ==
    IF d > 0 /\ n % 10 = 0 THEN Normalise(n \div 10, d - 1)
    ELSE Cell("float", n, d, "")

\* A conversion either yields a value or raises ValueError.
Ok(v) == [err |-> FALSE, val |-> v]
Raise == [err |-> TRUE, val |-> None]

\* int(s) of a string of digits; int('') raises ValueError.
int(s) ==
    IF s = <<>> \/ \E i \in 1..Len(s) : s[i] \notin DigitChars THEN Raise
    ELSE Ok(IntCell(DigitsToNat(s)))

\* float(s) of a string of digits and points: one point at most and one
\* digit at least, else ValueError.
float(s) ==
    LET digits == SelectSeq(s, LAMBDA c : c # ".")
        point  == CHOOSE i \in 1..Len(s) : s[i] = "."
    IN IF digits = <<>> \/ CountOf(s, ".") > 1
          \/ \E i \in 1..Len(s) : s[i] \notin DigitChars \cup {"."}
       THEN Raise
       ELSE IF CountOf(s, ".") = 0 THEN Ok(Normalise(DigitsToNat(digits), 0))
       ELSE Ok(Normalise(DigitsToNat(digits), Len(s) - point))

\* ------------------------------------------------------------- log text
\* The labels parse_benchmark_log searches a segment for.
DatasetLabels ==
    {"Prompts per group", "Total prompts", "Total input tokens",
     "Total output tokens"}

MetricLabels ==
    {"Successful requests", "Benchmark duration (s)",
     "Request throughput (req/s)", "Input token throughput (tok/s)",
     "Output token throughput (tok/s)", "Total token throughput (tok/s)",
     "Mean E2E Latency (ms)", "Mean TTFT (ms)", "Mean ITL (ms)"}

Labels == DatasetLabels \cup MetricLabels

\* The value group of the pattern of each label.
Pattern(label) ==
    CASE label \in {"Prompts per group", "Total prompts"} -> "d"
      [] label \in {"Total input tokens", "Total output tokens",
                    "Successful requests"} -> "dc"
      [] label \in {"Benchmark duration (s)",
                    "Request throughput (req/s)"} -> "dp"
      [] OTHER -> "dcp"

\* re.search(label + r':\s+(group)', run): the captured text, <<>> when the
\* search finds nothing (the label does not occur, or no character of the
\* group's class follows it).
Search(run, label) ==
    IF label \in run.occurs THEN Capture(Pattern(label), run.text[label])
    ELSE <<>>

\* The two searches without .replace(',', ''): prompts per group, total
\* prompts.
SearchPlainInt(run, label) ==
    LET g == Search(run, label)
    IN IF g = <<>> THEN Ok(None) ELSE int(g)

\* The two searches with int(m.group(1).replace(',', '')).
SearchCommaInt(run, label) ==
    LET g == Search(run, label)
    IN IF g = <<>> THEN Ok(None) ELSE int(StripCommas(g))

\* extract(pattern): float(m.group(1).replace(',', '')) if m else None
extract(run, label) ==
    LET g == Search(run, label)
    IN IF g = <<>> THEN Ok(None) ELSE float(StripCommas(g))

\* The keys of a result record, in the order the dict literal gives them.
Schema ==
    <<"Model", "xP_yD", "ISL", "OSL", "Concurrency", "Prompts_Group",
      "Total_Prompts", "Total_Input_Tokens", "Total_Output_Tokens",
      "Request_Throughput_req_s", "Input_Token_Throughput_tok_s",
      "Output_Token_Throughput_tok_s", "Total_Token_Throughput_tok_s",
      "Mean_E2E_Latency_ms", "Mean_TTFT_ms", "Mean_ITL_ms">>

Range(seq) == {seq[i] : i \in 1..Len(seq)}

\* The searches one segment goes through, in the order of the code; the
\* metrics only when the results-block marker occurs in the segment.
Conversions(run) ==
    [l \in Labels |->
        IF l \in {"Prompts per group", "Total prompts"}
        THEN SearchPlainInt(run, l)
        ELSE IF l \in DatasetLabels THEN SearchCommaInt(run, l)
        ELSE IF run.marker THEN extract(run, l)
        ELSE Ok(None)]

\* The dict appended for a segment whose conversions are conv.
ResultRecord(run, conv) ==
    [c \in Range(Schema) |->
        CASE c = "Model" -> StrCell(run.header.model)
          [] c = "xP_yD" -> Cell("topo", run.header.xp, run.header.yd, "")
          [] c = "ISL" -> IntCell(run.header.isl)
          [] c = "OSL" -> IntCell(run.header.osl)
          [] c = "Concurrency" -> IntCell(run.header.con)
          [] c = "Prompts_Group" -> conv["Prompts per group"].val
          [] c = "Total_Prompts" -> conv["Total prompts"].val
          [] c = "Total_Input_Tokens" -> conv["Total input tokens"].val
          [] c = "Total_Output_Tokens" -> conv["Total output tokens"].val
          [] c = "Request_Throughput_req_s" ->
                conv["Request throughput (req/s)"].val
          [] c = "Input_Token_Throughput_tok_s" ->
                conv["Input token throughput (tok/s)"].val
          [] c = "Output_Token_Throughput_tok_s" ->
                conv["Output token throughput (tok/s)"].val
          [] c = "Total_Token_Throughput_tok_s" ->
                conv["Total token throughput (tok/s)"].val
          [] c = "Mean_E2E_Latency_ms" -> conv["Mean E2E Latency (ms)"].val
          [] c = "Mean_TTFT_ms" -> conv["Mean TTFT (ms)"].val
          [] c = "Mean_ITL_ms" -> conv["Mean ITL (ms)"].val]

\* re.split(r'\[RUNNING\]', content)[1:]: the chunks after the first one.
SplitRuns(chunks) == Tail(chunks)

\* One pass of the for loop: what the body does with one segment.
\*   skip   the header pattern does not match, or the marker is missing
\*   raise  a conversion raised ValueError
\*   emit   a record is appended
ParseRun(run) ==
    IF ~run.header.match THEN [out |-> "skip", rec |-> <<>>]
    ELSE LET conv == Conversions(run)
         IN IF \E l \in Labels : conv[l].err
            THEN [out |-> "raise", rec |-> <<>>]
            ELSE IF run.marker
            THEN [out |-> "emit", rec |-> ResultRecord(run, conv)]
            ELSE [out |-> "skip", rec |-> <<>>]

RECURSIVE ParseRuns(_, _)
ParseRuns(runs, results) ==
    IF runs = <<>> THEN [raised |-> FALSE, results |-> results]
    ELSE LET r == ParseRun(Head(runs))
         IN CASE r.out = "raise" -> [raised |-> TRUE, results |-> <<>>]
              [] r.out = "emit" -> ParseRuns(Tail(runs), Append(results, r.rec))
              [] OTHER -> ParseRuns(Tail(runs), results)

\* parse_benchmark_log on the text of a file that was opened and read.
parse_benchmark_log(chunks) == ParseRuns(SplitRuns(chunks), <<>>)

\* ---------------------------------------------------------------- tables
\* A pandas DataFrame: its column names in order and its rows, each a
\* function from the column names to cells.
NoTable == [columns |-> <<>>, rows |-> <<>>]

\* pd.DataFrame(results): the keys of the dicts become the columns.
DataFrame(results) == [columns |-> Schema, rows |-> results]

\* The list main() selects under --compact.
CompactColumns ==
    <<"Model", "xP/yD", "ISL", "OSL", "Concurrency",
      "Request Throughput (req/s)", "Total Token Throughput (tok/s)",
      "Mean E2E Latency (ms)", "Mean TTFT (ms)", "Mean ITL (ms)">>

\* df[columns] raises KeyError when a name is not a column of df.
HasColumns(df, columns) == Range(columns) \subseteq Range(df.columns)

Select(df, columns) ==
    [columns |-> columns,
     rows |-> [i \in 1..Len(df.rows) |->
                 [c \in Range(columns) |-> df.rows[i][c]]]]

\* The column lists of format_dataframe.
numeric_cols ==
    <<"Request Throughput (req/s)", "Input Token Throughput (tok/s)",
      "Output Token Throughput (tok/s)", "Total Token Throughput (tok/s)",
      "Mean E2E Latency (ms)", "Mean TTFT (ms)", "Mean ITL (ms)">>

integer_cols == <<"Total Input Tokens", "Total Output Tokens">>

RECURSIVE Pow10(_)
Pow10(k) == IF k = 0 THEN 1 ELSE 10 * Pow10(k - 1)

\* pd.notna(x)
notna(x) == x.k # "none"

\* f"{x:.2f}": the hundredths nearest to n / 10^d (a tie, which the binary
\* expansion of x decides in Python, goes to the even neighbour here).
Hundredths(n, d) ==
    IF d <= 2 THEN n * Pow10(2 - d)
    ELSE LET p == Pow10(d - 2)
             q == n \div p
             r == n % p
         IN IF 2 * r > p \/ (2 * r = p /\ q % 2 = 1) THEN q + 1 ELSE q

\* lambda x: f"{x:.2f}" if pd.notna(x) else x
FormatNumeric(x) ==
    IF notna(x) THEN Cell("fixed2", Hundredths(x.n, x.d), 2, "") ELSE x

\* lambda x: f"{int(x):,}" if pd.notna(x) else x
FormatInteger(x) ==
    IF notna(x) THEN Cell("grouped", x.n \div Pow10(x.d), 0, "") ELSE x

\* format_dataframe(df): the columns of the two lists that are columns of df
\* are rewritten, the others are left alone.
format_dataframe(df) ==
    [columns |-> df.columns,
     rows |-> [i \in 1..Len(df.rows) |->
                 [c \in Range(df.columns) |->
                    IF c \in Range(numeric_cols)
                    THEN FormatNumeric(df.rows[i][c])
                    ELSE IF c \in Range(integer_cols)
                    THEN FormatInteger(df.rows[i][c])
                    ELSE df.rows[i][c]]]]

\* Variant of to_csv: the file is written from display-formatted metrics.
to_csv_formatted(df) ==
    [columns |-> df.columns,
     rows |-> [i \in 1..Len(df.rows) |->
                 [c \in Range(df.columns) |->
                    IF c \in {Schema[j] : j \in 10..16}
                    THEN FormatNumeric(df.rows[i][c])
                    ELSE df.rows[i][c]]]]

\* df.to_csv(path, index=False): the header line and one line per row.
to_csv(df) == [columns |-> df.columns, rows |-> df.rows]

\* ---------------------------------------------------------------- inputs
NoHeader == [match |-> FALSE, isl |-> 0, osl |-> 0, con |-> 0,
             model |-> "", xp |-> 0, yd |-> 0]
Header1 == [match |-> TRUE, isl |-> 1024, osl |-> 128, con |-> 8,
            model |-> "modelA", xp |-> 1, yd |-> 2]
Header2 == [match |-> TRUE, isl |-> 2048, osl |-> 256, con |-> 16,
            model |-> "modelB", xp |-> 2, yd |-> 1]

\* The texts written after a label: a count and a rate, plain and with
\* thousands separators, and two texts that hold no number.
PlainInt == <<"5", "1", "2">>
GroupedInt == <<"1", ",", "0", "2", "4">>
LoneComma == <<",">>
PlainFloat == <<"1", "2", ".", "5">>
GroupedFloat == <<"1", ",", "2", "3", "4", ".", "5", "6">>
TwoPoints == <<"1", ".", "2", ".", "3">>

\* The labels whose value is a count.
CountLabels == DatasetLabels \cup {"Successful requests"}

Chunk(header, marker, occurs, count, rate) ==
    [header |-> header, marker |-> marker, occurs |-> occurs,
     text |-> [l \in Labels |-> IF l \in CountLabels THEN count ELSE rate]]

SomeLabels == Labels \ {"Total prompts", "Total output tokens",
                        "Mean TTFT (ms)"}

\* The text between two [RUNNING] markers.
Segments ==
    {Chunk(Header1, TRUE, Labels, t[1], t[2]) :
        t \in {<<PlainInt, PlainFloat>>, <<GroupedInt, GroupedFloat>>,
               <<LoneComma, PlainFloat>>, <<PlainInt, TwoPoints>>}}
    \cup {Chunk(Header1, TRUE, SomeLabels, t[1], t[2]) :
        t \in {<<PlainInt, PlainFloat>>, <<GroupedInt, GroupedFloat>>}}
    \cup {Chunk(Header1, TRUE, {}, PlainInt, PlainFloat),
          Chunk(Header2, TRUE, Labels, PlainInt, PlainFloat),
          Chunk(Header1, FALSE, Labels, PlainInt, PlainFloat),
          Chunk(Header1, FALSE, Labels, LoneComma, PlainFloat),
          Chunk(NoHeader, TRUE, Labels, PlainInt, PlainFloat),
          Chunk(NoHeader, TRUE, Labels, LoneComma, TwoPoints)}

\* The text before the first [RUNNING] marker: nothing, or lines that look
\* like a run.
Preambles ==
    {Chunk(NoHeader, FALSE, {}, PlainInt, PlainFloat),
     Chunk(Header2, TRUE, Labels, GroupedInt, GroupedFloat)}

RECURSIVE SeqsUpTo(_, _)
SeqsUpTo(S, n) ==
    IF n = 0 THEN {<<>>}
    ELSE LET shorter == SeqsUpTo(S, n - 1)
         IN shorter \cup {Append(q, x) : q \in shorter, x \in S}

\* The contents of a log file, as re.split cuts it.
Logs == {<<p>> \o q : p \in Preambles, q \in SeqsUpTo(Segments, MaxSegments)}

NoCsv == "<None>"
CsvArgs == {NoCsv, "benchmark_results.csv", "results.csv"}

\* ----------------------------------------------------------------- state
VARIABLES
    args,        \* benchmark_parser: the parsed command line
    file,        \* the log file: its status and, when readable, its text
    pc,          \* the position of main()
    results,     \* the list parse_benchmark_log returned
    df,          \* the table main() builds
    display_df,  \* its formatted copy
    stdout,      \* what main() printed on the screen
    stderr,      \* the message on the error stream, "" when none
    csv_file,    \* the CSV file on disk
    exit_code,   \* the exit code, -1 while the process runs
    opens,       \* how often the log file was opened
    csv_writes,  \* how often to_csv was called
    wpc,         \* socket_wait: the position of the script
    portUp,      \* whether the remote port accepts a connection now
    attempts,    \* connection attempts made
    successes,   \* connection attempts that succeeded
    sleeps,      \* sleeps made
    lastOp,      \* the last suspension point passed: connect or sleep
    tick,        \* flips at every suspension point passed
    lastErr,     \* what the last connect_ex returned
    lastSleep,   \* the length of the last sleep
    wexit        \* the exit code of the script, -1 while it runs

parserVars == <<args, file, pc, results, df, display_df, stdout, stderr,
                csv_file, exit_code, opens, csv_writes>>
waitVars == <<wpc, portUp, attempts, successes, sleeps, lastOp, tick, lastErr,
              lastSleep, wexit>>
vars == <<parserVars, waitVars>>

NoScreen == [table |-> NoTable, total |-> -1, saved |-> ""]
NoFile == [path |-> "", data |-> NoTable]

ParserIdle ==
    /\ args = [csv |-> NoCsv, compact |-> FALSE, no_screen |-> FALSE]
    /\ file = [status |-> "missing", content |-> <<>>]
    /\ pc = "idle"
    /\ results = <<>> /\ df = NoTable /\ display_df = NoTable
    /\ stdout = NoScreen /\ stderr = "" /\ csv_file = NoFile
    /\ exit_code = -1 /\ opens = 0 /\ csv_writes = 0

WaitIdle ==
    /\ wpc = "idle" /\ portUp = FALSE
    /\ attempts = 0 /\ successes = 0 /\ sleeps = 0
    /\ lastOp = "none" /\ tick = 0 /\ lastErr = 0 /\ lastSleep = 0
    /\ wexit = -1

\* ------------------------------------------------- benchmark_parser.main
\* The state after parse_args(): any flags, and a log file that is missing,
\* unreadable, or readable with any of the bounded contents.
Init ==
    /\ args \in [csv : CsvArgs, compact : BOOLEAN, no_screen : BOOLEAN]
    /\ file \in {[status |-> "ok", content |-> c] : c \in Logs}
          \cup {[status |-> st, content |-> <<>>] :
                   st \in {"missing", "unreadable"}}
    /\ pc = "validate"
    /\ results = <<>> /\ df = NoTable /\ display_df = NoTable
    /\ stdout = NoScreen /\ stderr = "" /\ csv_file = NoFile
    /\ exit_code = -1 /\ opens = 0 /\ csv_writes = 0
    /\ WaitIdle

\* The process ends: a message on the error stream, or none, and the code.
Exit(msg, code) ==
    /\ stderr' = msg
    /\ exit_code' = code
    /\ pc' = "done"

\* Variant of ArgsInvalid: the flag combination is not validated.
ArgsInvalidNever(a) == FALSE

\* args.no_screen and not args.csv
ArgsInvalid(a) == a.no_screen /\ a.csv = NoCsv

\* parser.error(...) prints the usage and the message and exits with 2.
Validate ==
    /\ pc = "validate"
    /\ IF ArgsInvalid(args)
       THEN Exit("--no-screen requires --csv option", 2)
       ELSE pc' = "parse" /\ UNCHANGED <<stderr, exit_code>>
    /\ UNCHANGED <<args, file, results, df, display_df, stdout, csv_file,
                   opens, csv_writes, waitVars>>

\* results = parse_benchmark_log(args.logfile) and its two except clauses.
ParseLog ==
    /\ pc = "parse"
    /\ opens' = opens + 1
    /\ IF file.status = "missing"
       THEN Exit("Error: File not found.", 1) /\ UNCHANGED results
       ELSE IF file.status = "unreadable"
       THEN Exit("Error parsing log file", 1) /\ UNCHANGED results
       ELSE LET r == parse_benchmark_log(file.content)
            IN IF r.raised
               THEN Exit("Error parsing log file", 1) /\ UNCHANGED results
               ELSE /\ results' = r.results
                    /\ pc' = "check"
                    /\ UNCHANGED <<stderr, exit_code>>
    /\ UNCHANGED <<args, file, df, display_df, stdout, csv_file, csv_writes,
                   waitVars>>

\* Variant of NotResults: an empty list is not told from a filled one.
NotResultsNever(rs) == FALSE

\* not results
NotResults(rs) == rs = <<>>

\* if not results: ... sys.exit(1); df = pd.DataFrame(results)
CheckResults ==
    /\ pc = "check"
    /\ IF NotResults(results)
       THEN /\ Exit("No benchmark results found in the log file.", 1)
            /\ UNCHANGED df
       ELSE /\ df' = DataFrame(results)
            /\ pc' = "select"
            /\ UNCHANGED <<stderr, exit_code>>
    /\ UNCHANGED <<args, file, results, display_df, stdout, csv_file, opens,
                   csv_writes, waitVars>>

\* if args.compact: df = df[columns]; a KeyError is caught nowhere, so the
\* interpreter prints the traceback and exits with 1.
SelectColumns ==
    /\ pc = "select"
    /\ IF ~args.compact
       THEN pc' = "format" /\ UNCHANGED <<df, stderr, exit_code>>
       ELSE IF HasColumns(df, CompactColumns)
       THEN /\ df' = Select(df, CompactColumns)
            /\ pc' = "format"
            /\ UNCHANGED <<stderr, exit_code>>
       ELSE Exit("Traceback: KeyError", 1) /\ UNCHANGED df
    /\ UNCHANGED <<args, file, results, display_df, stdout, csv_file, opens,
                   csv_writes, waitVars>>

\* display_df = format_dataframe(df.copy())
FormatForDisplay ==
    /\ pc = "format"
    /\ display_df' = format_dataframe(df)
    /\ pc' = "screen"
    /\ UNCHANGED <<args, file, results, df, stdout, stderr, csv_file,
                   exit_code, opens, csv_writes, waitVars>>

\* if not args.no_screen: print the table and the number of runs.
ScreenOutput ==
    /\ pc = "screen"
    /\ stdout' = IF args.no_screen THEN stdout
                 ELSE [table |-> display_df, total |-> Len(results),
                       saved |-> ""]
    /\ pc' = "csv"
    /\ UNCHANGED <<args, file, results, df, display_df, stderr, csv_file,
                   exit_code, opens, csv_writes, waitVars>>

\* if args.csv: df.to_csv(...), which the file system lets succeed or fail;
\* then main() returns and the process exits with 0.
CsvOutput ==
    /\ pc = "csv"
    /\ IF args.csv = NoCsv
       THEN Exit("", 0) /\ UNCHANGED <<csv_file, csv_writes, stdout>>
       ELSE \E written \in BOOLEAN :
              /\ csv_writes' = csv_writes + 1
              /\ IF written
                 THEN /\ csv_file' = [path |-> args.csv, data |-> to_csv(df)]
                      /\ stdout' = IF args.no_screen THEN stdout
                                   ELSE [stdout EXCEPT !.saved = args.csv]
                      /\ Exit("", 0)
                 ELSE /\ Exit("Error saving CSV file", 1)
                      /\ UNCHANGED <<csv_file, stdout>>
    /\ UNCHANGED <<args, file, results, df, display_df, opens, waitVars>>

Next ==
    \/ Validate
    \/ ParseLog
    \/ CheckResults
    \/ SelectColumns
    \/ FormatForDisplay
    \/ ScreenOutput
    \/ CsvOutput

Spec == Init /\ [][Next]_vars

\* ------------------------------------------------------------ socket_wait
\* wait_while_port_open(host, port, check_interval=5)
check_interval == 5

\* What s.connect_ex((host, port)) returns: 0 when the port accepts the
\* connection, else the errno of the failure (ECONNREFUSED, ETIMEDOUT after
\* the timeout, EHOSTUNREACH).
ConnectOutcomes(up) == IF up THEN {0} ELSE {111, 110, 113}

\* Variant of is_port_open: the comparison is inverted.
is_port_open_inverted(err) == err # 0

\* Variant of is_port_open: the outcome of connect_ex is ignored.
is_port_open_always(err) == TRUE

\* return s.connect_ex((host, port)) == 0
is_port_open(err) == err = 0

\* The counters of the model stop counting at MaxPolls.
Count(n) == IF n < MaxPolls THEN n + 1 ELSE n

WaitInit ==
    /\ ParserIdle
    /\ wpc = "start"
    /\ portUp \in BOOLEAN
    /\ attempts = 0 /\ successes = 0 /\ sleeps = 0
    /\ lastOp = "none" /\ tick = 0 /\ lastErr = 0 /\ lastSleep = 0
    /\ wexit = -1

\* print(f"Waiting while port {port} on {host} is open...")
Announce ==
    /\ wpc = "start"
    /\ wpc' = "connect"
    /\ UNCHANGED <<portUp, attempts, successes, sleeps, lastOp, tick, lastErr,
                   lastSleep, wexit, parserVars>>

\* Variant of LoopTarget: the loop condition is negated.
SleepAfterFailure(open) == IF open THEN "closed" ELSE "sleep"

\* Where the while loop goes after its condition.
LoopTarget(open) == IF open THEN "sleep" ELSE "closed"

\* The loop condition: one call of is_port_open.
Connect ==
    /\ wpc = "connect"
    /\ \E err \in ConnectOutcomes(portUp) :
          /\ lastErr' = err
          /\ attempts' = Count(attempts)
          /\ successes' = IF is_port_open(err) THEN Count(successes)
                          ELSE successes
          /\ wpc' = LoopTarget(is_port_open(err))
    /\ lastOp' = "connect"
    /\ tick' = 1 - tick
    /\ UNCHANGED <<portUp, sleeps, lastSleep, wexit, parserVars>>

\* The loop body: time.sleep(check_interval)
Sleep ==
    /\ wpc = "sleep"
    /\ sleeps' = Count(sleeps)
    /\ lastSleep' = check_interval
    /\ lastOp' = "sleep"
    /\ tick' = 1 - tick
    /\ wpc' = "connect"
    /\ UNCHANGED <<portUp, attempts, successes, lastErr, wexit, parserVars>>

\* print(f"Port {port} on {host} is now closed."); the script ends.
Finish ==
    /\ wpc = "closed"
    /\ wexit' = 0
    /\ wpc' = "done"
    /\ UNCHANGED <<portUp, attempts, successes, sleeps, lastOp, tick, lastErr,
                   lastSleep, parserVars>>

\* The remote end opens or closes the port while the script runs.
PortChange ==
    /\ wpc # "done"
    /\ portUp' = ~portUp
    /\ UNCHANGED <<wpc, attempts, successes, sleeps, lastOp, tick, lastErr,
                   lastSleep, wexit, parserVars>>

WaitStep == Announce \/ Connect \/ Sleep \/ Finish

WaitNext == WaitStep \/ PortChange

WaitSpec == WaitInit /\ [][WaitNext]_vars

\* The script is a single blocking thread: the step it is at is taken.
WaitFairSpec == WaitSpec /\ WF_vars(WaitStep)

\* ================================================================ claims
\* What the claims speak of, stated without the parser.

\* A segment with a header match and the results-block marker.
IsComplete(run) == run.header.match /\ run.marker

\* The [RUNNING]-delimited segments of a log: all chunks but the first.
SegmentsOf(content) == SubSeq(content, 2, Len(content))

CompleteSegments(content) == SelectSeq(SegmentsOf(content), IsComplete)

\* parse_benchmark_log was called, the file was read and the call returned.
Returned ==
    /\ opens = 1
    /\ pc # "parse"
    /\ file.status = "ok"
    /\ stderr # "Error parsing log file"

\* parse_benchmark_log was called, the file was read and the call raised.
Raised ==
    /\ opens = 1
    /\ pc = "done"
    /\ file.status = "ok"
    /\ stderr = "Error parsing log file"

\* The label each optional column is read from.
LabelOf(c) ==
    CASE c = "Prompts_Group" -> "Prompts per group"
      [] c = "Total_Prompts" -> "Total prompts"
      [] c = "Total_Input_Tokens" -> "Total input tokens"
      [] c = "Total_Output_Tokens" -> "Total output tokens"
      [] c = "Request_Throughput_req_s" -> "Request throughput (req/s)"
      [] c = "Input_Token_Throughput_tok_s" ->
            "Input token throughput (tok/s)"
      [] c = "Output_Token_Throughput_tok_s" ->
            "Output token throughput (tok/s)"
      [] c = "Total_Token_Throughput_tok_s" ->
            "Total token throughput (tok/s)"
      [] c = "Mean_E2E_Latency_ms" -> "Mean E2E Latency (ms)"
      [] c = "Mean_TTFT_ms" -> "Mean TTFT (ms)"
      [] c = "Mean_ITL_ms" -> "Mean ITL (ms)"

DatasetColumns ==
    {"Prompts_Group", "Total_Prompts", "Total_Input_Tokens",
     "Total_Output_Tokens"}

MetricColumns ==
    {"Request_Throughput_req_s", "Input_Token_Throughput_tok_s",
     "Output_Token_Throughput_tok_s", "Total_Token_Throughput_tok_s",
     "Mean_E2E_Latency_ms", "Mean_TTFT_ms", "Mean_ITL_ms"}

TokenColumns == {"Total_Input_Tokens", "Total_Output_Tokens"}

OptionalColumns == DatasetColumns \cup MetricColumns

\* The decimal value written after a label, thousands separators removed:
\* the whole text counts, wherever a separator stands in it.
Written(run, label) ==
    LET w == IF label \in CountLabels THEN int(StripCommas(run.text[label]))
             ELSE float(StripCommas(run.text[label]))
    IN IF label \in run.occurs /\ ~w.err THEN w.val ELSE None

\* The header columns of a record are those of the segment's run header.
FromSegment(rec, run) ==
    /\ rec["Model"] = StrCell(run.header.model)
    /\ rec["xP_yD"] = Cell("topo", run.header.xp, run.header.yd, "")
    /\ rec["ISL"] = IntCell(run.header.isl)
    /\ rec["OSL"] = IntCell(run.header.osl)
    /\ rec["Concurrency"] = IntCell(run.header.con)

\* The returned list is the complete segments, one record each, in order.
IsSubsequenceOfComplete(rs, content) ==
    LET segs == CompleteSegments(content)
    IN /\ Len(rs) = Len(segs)
       /\ \A i \in 1..Len(segs) : FromSegment(rs[i], segs[i])

\* C1: --no-screen without --csv: the process ends with a non-zero exit code
\* and parse_benchmark_log is never called (the log file is never opened),
\* whatever the log file and --compact are.
C1_NoScreenNeedsCsv ==
    (args.no_screen /\ args.csv = NoCsv) =>
        /\ pc \in {"validate", "done"}
        /\ opens = 0
        /\ results = <<>>
        /\ pc = "done" => exit_code = 2 /\ stderr # ""

C1_Witness ==
    /\ pc = "done" /\ exit_code = 2 /\ opens = 0
    /\ args.no_screen /\ args.csv = NoCsv /\ args.compact
    /\ file.status = "ok" /\ Len(file.content) = 3

\* C2: for every log text parse_benchmark_log returns the complete segments
\* (header match and results-block marker), one record each, in log order;
\* the text before the first marker and the segments without header or
\* without marker contribute nothing and raise no error: the call raises
\* only if a complete segment does.
C2_RecordsAreCompleteSegments ==
    /\ Returned => IsSubsequenceOfComplete(results, file.content)
    /\ Raised =>
          \E i \in 1..Len(CompleteSegments(file.content)) :
             ParseRun(CompleteSegments(file.content)[i]).out = "raise"

\* C3: every optional numeric field of an emitted record is absent when its
\* label does not occur in the segment, and else is the decimal value
\* written after the label with the thousands separators removed.
C3_FieldsAreWrittenValues ==
    (Returned /\ IsSubsequenceOfComplete(results, file.content)) =>
        \A i \in 1..Len(results) : \A c \in OptionalColumns :
            results[i][c] = Written(CompleteSegments(file.content)[i],
                                    LabelOf(c))

\* The keys of the columns the compact view is meant to show.
CompactKeys ==
    <<"Model", "xP_yD", "ISL", "OSL", "Concurrency",
      "Request_Throughput_req_s", "Total_Token_Throughput_tok_s",
      "Mean_E2E_Latency_ms", "Mean_TTFT_ms", "Mean_ITL_ms">>

\* C4: with --compact and at least one record, main() completes normally
\* and the screen shows the ten compact columns, each value that of the same
\* record and column in full mode.
C4_CompactIsProjection ==
    (/\ pc = "done" /\ args.compact /\ ~args.no_screen
     /\ Returned /\ results # <<>>
     /\ stderr # "Error saving CSV file") =>
        /\ exit_code = 0
        /\ Len(stdout.table.columns) = Len(CompactKeys)
        /\ Len(stdout.table.rows) = Len(results)
        /\ \A i \in 1..Len(results) : \A j \in 1..Len(CompactKeys) :
              stdout.table.rows[i][stdout.table.columns[j]]
                 = format_dataframe(DataFrame(results)).rows[i][CompactKeys[j]]

C6_ScreenIsFormatted ==
    stdout.table # NoTable =>
        /\ Len(stdout.table.rows) = Len(results)
        /\ \A i \in 1..Len(results) : \A c \in MetricColumns \cup TokenColumns :
              /\ c \in Range(stdout.table.columns)
              /\ results[i][c].k = "none" => stdout.table.rows[i][c].k = "none"
              /\ (results[i][c].k # "none" /\ c \in MetricColumns) =>
                    stdout.table.rows[i][c].k = "fixed2"
              /\ (results[i][c].k # "none" /\ c \in TokenColumns) =>
                    stdout.table.rows[i][c].k = "grouped"

\* Every output the flags ask for was produced.
OutputsProduced ==
    /\ ~args.no_screen => stdout.table # NoTable
    /\ args.csv # NoCsv => csv_file # NoFile

\* C7: with a valid flag combination the exit code is 0 when the log was
\* read, a record was parsed and every requested output was produced; it is
\* 1, with a message on the error stream, when the file is not found, when
\* parsing raises another error, when no record is found (then no table and
\* no CSV file either) and when the CSV write fails; no step is tried twice.
C7_ExitCodes ==
    /\ opens <= 1 /\ csv_writes <= 1
    /\ (pc = "done" /\ ~(args.no_screen /\ args.csv = NoCsv)) =>
          /\ (Returned /\ results # <<>> /\ OutputsProduced) => exit_code = 0
          /\ file.status = "missing" =>
                exit_code = 1 /\ stderr = "Error: File not found."
          /\ (file.status = "unreadable" \/ Raised) =>
                exit_code = 1 /\ stderr = "Error parsing log file"
          /\ (file.status = "ok" /\ ~Raised
                /\ CompleteSegments(file.content) = <<>>) =>
                /\ exit_code = 1
                /\ stderr = "No benchmark results found in the log file."
                /\ stdout = NoScreen /\ csv_file = NoFile /\ csv_writes = 0
          /\ (csv_writes = 1 /\ csv_file = NoFile) =>
                exit_code = 1 /\ stderr = "Error saving CSV file"

C7_Witness ==
    /\ pc = "done" /\ exit_code = 1
    /\ stderr = "No benchmark results found in the log file."
    /\ args.csv # NoCsv /\ ~args.no_screen
    /\ Len(file.content) = 3

\* A suspension point is passed in this step.
OpStep == tick' # tick

AlternationStep ==
    OpStep =>
        /\ lastOp' = "sleep" => (lastOp = "connect" /\ lastErr = 0)
        /\ lastOp' = "connect" => lastOp \in {"none", "sleep"}
        /\ lastOp = "sleep" => lastOp' = "connect"

\* C8: connection attempts and sleeps alternate, starting with an attempt: a
\* sleep comes only right after a successful attempt, an attempt only first
\* or right after a sleep; the script never ends on a sleep, and when it has
\* ended the sleeps are as many as the successful attempts, so none when the
\* first attempt failed.
C8_Alternation ==
    /\ [](lastOp = "none" => (attempts = 0 /\ sleeps = 0))
    /\ [][AlternationStep]_vars
    /\ [](wpc \in {"closed", "done"} =>
            (/\ lastOp = "connect"
             /\ sleeps = successes
             /\ attempts = Count(successes)))

C8_Witness ==
    /\ wpc = "done" /\ attempts = 3 /\ successes = 2 /\ sleeps = 2
    /\ lastOp = "connect"

ConnectStep ==
    (OpStep /\ lastOp' = "connect") =>
        /\ lastErr' = 0 => wpc' = "sleep"
        /\ lastErr' # 0 => wpc' = "closed"

ClosedStep ==
    wpc \in {"closed", "done"} =>
        /\ ~OpStep
        /\ wpc' \in {"closed", "done"}
        /\ attempts' = attempts
        /\ sleeps' = sleeps

\* C9: a connect outcome of zero keeps the waiter OPEN (it goes on to
\* sleep), any other outcome moves it to CLOSED; the loop is left only after
\* a failed attempt, after which no attempt and no sleep is made, and the
\* script then ends with exit code 0.
C9_OpenClosed ==
    /\ [][ConnectStep]_vars
    /\ [](wpc \in {"closed", "done"} => (lastOp = "connect" /\ lastErr # 0))
    /\ [][ClosedStep]_vars
    /\ [](wpc = "done" <=> wexit = 0)
    /\ [](wexit \in {-1, 0})

C9_Witness ==
    /\ wpc = "done" /\ wexit = 0 /\ lastErr = 110
    /\ successes = 1 /\ sleeps = 1

\* While the last attempt succeeded and no new one is made, the script
\* stays in its sleep and does not end.
OpenStep ==
    (wpc = "sleep" /\ lastErr = 0 /\ ~OpStep) =>
        (wpc' = "sleep" /\ wexit' = -1)

IntervalStep == (OpStep /\ lastOp' = "sleep") => lastSleep' = check_interval

\* C10: if from some point on the port stays closed the script ends, with
\* exit code 0; it ends only after a failed attempt, however many attempts
\* succeeded before, and every sleep lasts check_interval.
C10_Liveness ==
    /\ (<>[](~portUp)) => <>(wpc = "done" /\ wexit = 0)
    /\ [](wpc \in {"closed", "done"} => lastErr # 0)
    /\ [][OpenStep]_vars
    /\ [][IntervalStep]_vars
    /\ [](lastSleep \in {0, check_interval})

C10_Witness ==
    /\ wpc = "done" /\ wexit = 0
    /\ successes = MaxPolls /\ sleeps = MaxPolls
    /\ lastSleep = check_interval

====
